---- MODULE Spec2Model ----
(***************************************************************************)
(* Resilient CRM synchronisation subsystem of irelandpay-analytics-pulse:  *)
(* the durable job queue (SyncQueue), the circuit breaker and retry        *)
(* wrapper (_execute_with_resilience), the transactional sink client with  *)
(* the sync manager built on it, and the watermark-based incremental sync. *)
(*                                                                         *)
(* Each subsystem has its own specification over the shared variables:     *)
(*   Spec     the sync_queue table and the SyncQueue API                   *)
(*   SpecCB   CircuitBreaker and the two _execute_with_resilience wrappers *)
(*   SpecLS   sync_merchants of the lib sync managers, over the wrappers   *)
(*   SpecTx   TransactionClient, sync_merchants, sync_residuals, sync_all  *)
(*   SpecInc  IncrementalSync                                              *)
(*   SpecAll  sync_all of IrelandPayCRMSync and of IRISCRMSyncManager      *)
(*   SpecAC   _generate_record_hash and _apply_changes of IncrementalSync  *)
(*   SpecUp   _upsert_merchant and batch_upsert applied twice               *)
(*   SpecQP   QueueProcessor; SpecQPLive adds fairness of the worker loop  *)
(***************************************************************************)
EXTENDS Integers, Sequences, FiniteSets, TLC

VARIABLES
    \* ---- sync_queue table and SyncQueue workers
    jobs,       \* the persisted sync_queue rows, indexed by job id 1..Len(jobs)
    now,        \* the wall clock, in seconds
    pc,         \* pc[w]: where worker w is in get -> mark running -> complete/fail
    held,       \* held[w]: the job get_next_job handed to worker w (0: none)
    ret,        \* the last API call and what it returned
    \* ---- circuit breaker and resilience wrapper (lib/*_sync.py)
    impl,       \* the module in use: "iris" (iriscrm_sync) or "ipay" (irelandpay_crm_sync)
    cb,         \* the CircuitBreaker singleton: failures, is_open, last_failure_time
    call,       \* the _execute_with_resilience call in progress, or the last one
    hist,       \* bookkeeping about the breaker's history, for the claims
    msync,      \* the sync_merchants run of the lib sync manager in progress
    \* ---- transactional sink client and sync manager
    txs,        \* the sink's sync transactions, indexed by transaction id
    txid,       \* TransactionClient.transaction_id (0: None)
    run,        \* the sync run in progress: position, counters, results
    \* ---- incremental sync
    wm,         \* the stored watermark row of the (data_type, scope) pair
    inc,        \* the IncrementalSync object and its sync in progress
    ac,         \* a table, a changed record and the _apply_changes calls on it
    \* ---- idempotent upsert and the queue processor
    up,         \* a merchants table and the applications of one batch to it
    qp          \* the QueueProcessor loop, its sync_queue rows and the clock it sleeps on

qvars == <<jobs, pc, held, ret>>
cbvars == <<impl, cb, call, hist, msync>>
txvars == <<txs, txid, run>>
incvars == <<wm, inc, ac>>
xvars == <<up, qp>>

vars == <<jobs, now, pc, held, ret, impl, cb, call, hist, msync, txs, txid, run, wm, inc, ac, up, qp>>

(***************************************************************************)
(* Bounds of the model                                                     *)
(***************************************************************************)
MaxJobs == 2        \* rows the table holds at most
MaxTime == 10       \* the clock stops here

(***************************************************************************)
(* sync_queue.py                                                           *)
(***************************************************************************)
NULL == -1          \* None / SQL NULL in an integer column

max_retries == 3
base_delay == 5

Workers == {1, 2}
Priorities == {0, 1}
Errors == {"timeout"}
TickSteps == {10}

RECURSIVE Pow2(_)
Pow2(n) == IF n = 0 THEN 1 ELSE 2 * Pow2(n - 1)

JobIds == 1..Len(jobs)

\* A row as enqueue() inserts it.
NewJob(priority) ==
    [status |-> "pending", priority |-> priority, created_at |-> now,
     retry_count |-> 0, next_retry |-> NULL, last_error |-> "NULL",
     result |-> "NULL"]

\* Rows the durable table may hold when a SyncQueue is constructed on it:
\* initialize() loads the pending and running rows it finds, with whatever
\* retry_count, next_retry and last_error they carry.
PersistedRows ==
    [status : {"pending", "running"}, priority : {0}, created_at : {0},
     retry_count : 0..max_retries, next_retry : {NULL, 0},
     last_error : {"NULL"}, result : {"NULL"}]

\* The row filter of get_next_job's query. Chained filters are conjoined;
\* or_("a,b") is the disjunction of a and b; a comparison with NULL is not true.
\*   .eq("status", "pending").or_("status.eq.retrying,next_retry.lte.<now>")
QueryMatches(row, t) ==
    /\ row.status = "pending"
    /\ \/ row.status = "retrying"
       \/ (row.next_retry # NULL /\ row.next_retry <= t)

\* .order(priority desc).order(created_at asc).limit(1): the rows that can
\* come first; the store breaks remaining ties as it likes.
QueryFirst(t) ==
    {j \in JobIds :
        /\ QueryMatches(jobs[j], t)
        /\ \A k \in JobIds : QueryMatches(jobs[k], t) =>
              \/ jobs[k].priority < jobs[j].priority
              \/ /\ jobs[k].priority = jobs[j].priority
                 /\ jobs[k].created_at >= jobs[j].created_at}

\* What a call left behind for its caller: the operation, its argument, the
\* value returned (a job id, 1 for True, 0 for None / False), whether the
\* store answered without error, and fail_job's retry argument.
Ret(op, arg, val, ok, retry) ==
    [op |-> op, arg |-> arg, val |-> val, ok |-> ok, retry |-> retry]

enqueue(priority) ==
    /\ Len(jobs) < MaxJobs
    /\ \E dbok \in BOOLEAN :
         IF dbok
         THEN /\ jobs' = Append(jobs, NewJob(priority))
              /\ ret' = Ret("enqueue", priority, Len(jobs) + 1, TRUE, FALSE)
         ELSE /\ jobs' = jobs
              /\ ret' = Ret("enqueue", priority, 0, FALSE, FALSE)
    /\ UNCHANGED <<now, pc, held>>
    /\ UNCHANGED <<cbvars, txvars, incvars, xvars>>

get_next_job(w) ==
    /\ pc[w] = "idle"
    /\ \E dbok \in BOOLEAN :
         IF dbok /\ QueryFirst(now) # {}
         THEN \E j \in QueryFirst(now) :
                /\ held' = [held EXCEPT ![w] = j]
                /\ pc' = [pc EXCEPT ![w] = "got"]
                /\ ret' = Ret("get_next_job", w, j, TRUE, FALSE)
         ELSE /\ ret' = Ret("get_next_job", w, 0, dbok, FALSE)
              /\ UNCHANGED <<pc, held>>
    /\ UNCHANGED <<jobs, now>>
    /\ UNCHANGED <<cbvars, txvars, incvars, xvars>>

mark_job_running(w) ==
    /\ pc[w] = "got"
    /\ \E dbok \in BOOLEAN :
         IF dbok
         THEN /\ jobs' = [jobs EXCEPT ![held[w]].status = "running"]
              /\ pc' = [pc EXCEPT ![w] = "running"]
              /\ ret' = Ret("mark_job_running", held[w], 1, TRUE, FALSE)
         ELSE /\ ret' = Ret("mark_job_running", held[w], 0, FALSE, FALSE)
              /\ UNCHANGED <<jobs, pc>>
    /\ UNCHANGED <<now, held>>
    /\ UNCHANGED <<cbvars, txvars, incvars, xvars>>

complete_job(w) ==
    /\ pc[w] = "running"
    /\ \E dbok \in BOOLEAN :
         IF dbok
         THEN /\ jobs' = [jobs EXCEPT ![held[w]].status = "completed",
                                      ![held[w]].result = "result"]
              /\ pc' = [pc EXCEPT ![w] = "idle"]
              /\ held' = [held EXCEPT ![w] = 0]
              /\ ret' = Ret("complete_job", held[w], 1, TRUE, FALSE)
         ELSE /\ ret' = Ret("complete_job", held[w], 0, FALSE, FALSE)
              /\ UNCHANGED <<jobs, pc, held>>
    /\ UNCHANGED now
    /\ UNCHANGED <<cbvars, txvars, incvars, xvars>>

\* The row update fail_job computes from the retry_count it read.
FailUpdate(row, error, retry, t) ==
    IF retry /\ row.retry_count < max_retries
    THEN [row EXCEPT !.status = "retrying",
                     !.retry_count = row.retry_count + 1,
                     !.next_retry = t + base_delay * Pow2(row.retry_count + 1),
                     !.last_error = error]
    ELSE [row EXCEPT !.status = "failed", !.last_error = error]

fail_job(w) ==
    /\ pc[w] = "running"
    /\ \E dbok \in BOOLEAN, error \in Errors, retry \in BOOLEAN :
         IF dbok
         THEN /\ jobs' = [jobs EXCEPT ![held[w]] = FailUpdate(@, error, retry, now)]
              /\ pc' = [pc EXCEPT ![w] = "idle"]
              /\ held' = [held EXCEPT ![w] = 0]
              /\ ret' = Ret("fail_job", held[w], 1, TRUE, retry)
         ELSE /\ ret' = Ret("fail_job", held[w], 0, FALSE, retry)
              /\ UNCHANGED <<jobs, pc, held>>
    /\ UNCHANGED now
    /\ UNCHANGED <<cbvars, txvars, incvars, xvars>>

cancel_job(j) ==
    /\ j \in JobIds
    /\ \E dbok \in BOOLEAN :
         IF dbok /\ jobs[j].status \in {"pending", "retrying"}
         THEN /\ jobs' = [jobs EXCEPT ![j].status = "cancelled"]
              /\ ret' = Ret("cancel_job", j, 1, TRUE, FALSE)
         ELSE /\ jobs' = jobs
              /\ ret' = Ret("cancel_job", j, 0, dbok, FALSE)
    /\ UNCHANGED <<now, pc, held>>
    /\ UNCHANGED <<cbvars, txvars, incvars, xvars>>

Tick ==
    /\ \E d \in TickSteps :
         /\ now + d <= MaxTime
         /\ now' = now + d
    /\ ret' = Ret("tick", 0, 0, TRUE, FALSE)
    /\ UNCHANGED <<jobs, pc, held>>
    /\ UNCHANGED <<cbvars, txvars, incvars, xvars>>

(***************************************************************************)
(* lib/iriscrm_sync.py and lib/irelandpay_crm_sync.py: CircuitBreaker and  *)
(* _execute_with_resilience                                                *)
(***************************************************************************)
MAX_RETRIES == 3
CIRCUIT_MAX_FAILURES == 5
CIRCUIT_RESET_SECONDS == 60

MaxFailCount == 7   \* record_failure is not called beyond this count
CBMaxTime == 120    \* the clock of the breaker runs stop here

Impls == {"iris", "ipay"}
CBTickSteps == {30}
\* What one invocation of the wrapped operation does: return, raise
\* RetryableError, raise FatalError, raise any other exception.
Outcomes == {"ok", "retryable", "fatal", "other"}

ClosedBreaker == [failures |-> 0, is_open |-> FALSE, last_failure_time |-> NULL]

\* record_failure opening the breaker one failure late (> for >=).
record_failure_late(b, t) ==
    [failures |-> b.failures + 1,
     last_failure_time |-> t,
     is_open |-> IF b.failures + 1 > CIRCUIT_MAX_FAILURES THEN TRUE ELSE b.is_open]

record_failure(b, t) ==
    [failures |-> b.failures + 1,
     last_failure_time |-> t,
     is_open |-> IF b.failures + 1 >= CIRCUIT_MAX_FAILURES THEN TRUE ELSE b.is_open]

\* The exception that leaves the retried function when the operation's
\* invocation ends with outcome o (not "ok"). iriscrm_sync re-raises
\* FatalError and RetryableError and wraps anything else in RetryableError;
\* in irelandpay_crm_sync a FatalError leaves CircuitBreaker.execute as it is
\* and any other exception is replaced by the TypeError of
\* cls.record_failure().
IrisRaised(o) == IF o = "fatal" THEN "FatalError" ELSE "RetryableError"

IpayRaised(o) == IF o = "fatal" THEN "FatalError" ELSE "TypeError"

\* tenacity retrying on every exception.
retry_if_exception(e) == TRUE

\* retry=retry_if_exception_type(RetryableError)
retry_if_exception_type(e) == e = "RetryableError"

\* record_success closing the breaker as well.
record_success_closing(b) == [b EXCEPT !.failures = 0, !.is_open = FALSE]

record_success(b) ==
    IF b.failures > 0 THEN [b EXCEPT !.failures = 0] ELSE b

\* Whether is_open() finds the reset timeout elapsed: iriscrm_sync compares
\* with >=, irelandpay_crm_sync with >.
ResetDue(i, b, t) ==
    /\ b.is_open
    /\ b.last_failure_time # NULL
    /\ IF i = "iris"
       THEN t - b.last_failure_time >= CIRCUIT_RESET_SECONDS
       ELSE t - b.last_failure_time > CIRCUIT_RESET_SECONDS

\* The breaker after an is_open() check, and the value the check returns.
is_open_state(i, b, t) ==
    IF ResetDue(i, b, t) THEN [b EXCEPT !.is_open = FALSE, !.failures = 0] ELSE b

is_open(i, b, t) == is_open_state(i, b, t).is_open

\* hist.fsince: record_failure calls since the last record_success;
\* hist.reset: an is_open() check has reset the breaker at some point.
HistFailure(h) == [h EXCEPT !.fsince = IF @ < MaxFailCount + 1 THEN @ + 1 ELSE @]
HistSuccess(h) == [h EXCEPT !.fsince = 0]
HistProbe(h, i, b, t) == IF ResetDue(i, b, t) THEN [h EXCEPT !.reset = TRUE] ELSE h

NoCall == [phase |-> "idle", attempts |-> 0, calls |-> 0, outcomes |-> <<>>,
           result |-> "none", opened |-> FALSE]

\* One attempt of the retried function in iriscrm_sync (_retryable_operation
\* under tenacity's stop_after_attempt / retry_if_exception_type / reraise),
\* and what _execute_with_resilience returns when the attempts end. b and h
\* are the breaker and its history as the attempt finds them.
IrisAttempt(c, o, b, h) ==
    LET b1 == IF o = "ok" THEN record_success(b) ELSE record_failure(b, now)
        n  == c.attempts + 1
        c1 == [c EXCEPT !.attempts = n, !.calls = c.calls + 1,
                        !.outcomes = Append(c.outcomes, o),
                        !.opened = c.opened \/ b1.is_open]
    IN  /\ (o # "ok") => b.failures < MaxFailCount
        /\ cb' = b1
        /\ hist' = IF o = "ok" THEN HistSuccess(h) ELSE HistFailure(h)
        /\ call' = IF o = "ok"
                   THEN [c1 EXCEPT !.phase = "returned", !.result = "ok"]
                   ELSE IF retry_if_exception_type(IrisRaised(o)) /\ n < MAX_RETRIES
                   THEN [c1 EXCEPT !.phase = "sleeping"]
                   ELSE IF IrisRaised(o) = "FatalError"
                   THEN [c1 EXCEPT !.phase = "returned", !.result = "fatal"]
                   ELSE [c1 EXCEPT !.phase = "returned", !.result = "unexpected"]

\* One attempt of resilient_operation in irelandpay_crm_sync, which goes
\* through CircuitBreaker.execute: the open check is made on every attempt;
\* on a non-fatal exception execute calls cls.record_failure() on the class,
\* which raises TypeError (no self), so the failure is not recorded and the
\* TypeError, not being a RetryableError, ends the retries.
IpayAttempt(c, o) ==
    LET open == is_open("ipay", cb, now)
        b0   == is_open_state("ipay", cb, now)
        n    == c.attempts + 1
        c0   == [c EXCEPT !.attempts = n, !.opened = c.opened \/ open]
        c1   == [c0 EXCEPT !.calls = c.calls + 1, !.outcomes = Append(c.outcomes, o)]
    IN  /\ open => o = "ok"     \* the operation is not called: o is not used
        /\ hist' = IF open THEN hist
                   ELSE IF o = "ok" THEN HistSuccess(HistProbe(hist, "ipay", cb, now))
                   ELSE HistProbe(hist, "ipay", cb, now)
        /\ IF ~open /\ o = "ok"
           THEN /\ cb' = record_success(b0)
                /\ call' = [c1 EXCEPT !.phase = "returned", !.result = "ok"]
           ELSE LET e  == IF open THEN "RetryableError" ELSE IpayRaised(o)
                    c2 == IF open THEN c0 ELSE c1
                IN  /\ cb' = b0
                    /\ call' = IF retry_if_exception_type(e) /\ n < MAX_RETRIES
                               THEN [c2 EXCEPT !.phase = "sleeping"]
                               ELSE IF retry_if_exception_type(e)
                               THEN [c2 EXCEPT !.phase = "returned", !.result = "failed_retries"]
                               ELSE [c2 EXCEPT !.phase = "returned", !.result = "unexpected"]

\* _execute_with_resilience is called. iriscrm_sync checks the breaker once,
\* up front, and returns the circuit_open result if it is open; otherwise,
\* and always in irelandpay_crm_sync, the first attempt runs.
ExecStart ==
    /\ call.phase # "sleeping"
    /\ \E o \in Outcomes :
         IF impl = "iris"
         THEN IF is_open("iris", cb, now)
              THEN /\ o = "ok"     \* the operation is not called: o is not used
                   /\ cb' = is_open_state("iris", cb, now)
                   /\ hist' = hist
                   /\ call' = [NoCall EXCEPT !.phase = "returned",
                                             !.result = "circuit_open",
                                             !.opened = TRUE]
              ELSE IrisAttempt(NoCall, o, is_open_state("iris", cb, now),
                               HistProbe(hist, "iris", cb, now))
         ELSE IpayAttempt(NoCall, o)
    /\ UNCHANGED <<now, impl, msync>>
    /\ UNCHANGED <<qvars, txvars, incvars, xvars>>

\* The backoff sleep ends and tenacity makes the next attempt.
ExecRetry ==
    /\ call.phase = "sleeping"
    /\ \E o \in Outcomes :
         IF impl = "iris" THEN IrisAttempt(call, o, cb, hist) ELSE IpayAttempt(call, o)
    /\ UNCHANGED <<now, impl, msync>>
    /\ UNCHANGED <<qvars, txvars, incvars, xvars>>

\* Direct calls on CircuitBreaker.getInstance(), made between wrapper calls.
RecordFailureCall ==
    /\ call.phase # "sleeping"
    /\ cb.failures < MaxFailCount
    /\ cb' = record_failure(cb, now)
    /\ hist' = HistFailure(hist)
    /\ UNCHANGED <<now, impl, call, msync>>
    /\ UNCHANGED <<qvars, txvars, incvars, xvars>>

RecordSuccessCall ==
    /\ call.phase # "sleeping"
    /\ cb' = record_success(cb)
    /\ hist' = HistSuccess(hist)
    /\ UNCHANGED <<now, impl, call, msync>>
    /\ UNCHANGED <<qvars, txvars, incvars, xvars>>

IsOpenCall ==
    /\ call.phase # "sleeping"
    /\ cb' = is_open_state(impl, cb, now)
    /\ hist' = HistProbe(hist, impl, cb, now)
    /\ UNCHANGED <<now, impl, call, msync>>
    /\ UNCHANGED <<qvars, txvars, incvars, xvars>>

CBTick ==
    /\ \E d \in CBTickSteps :
         /\ now + d <= CBMaxTime
         /\ now' = now + d
    /\ UNCHANGED <<impl, cb, call, hist, msync>>
    /\ UNCHANGED <<qvars, txvars, incvars, xvars>>

(***************************************************************************)
(* lib/iriscrm_sync.py IRISCRMSyncManager.sync_merchants and               *)
(* lib/irelandpay_crm_sync.py IrelandPayCRMSyncManager.sync_merchants      *)
(***************************************************************************)
LSMaxPages == 2     \* pages of merchants the API has at most

PER_PAGE == 100
LSPageSizes == {0, 1}           \* merchants on a page

\* The keys of the dictionary _execute_with_resilience returns for a failure.
ResultKeys(i, r) ==
    IF i = "iris" /\ r = "circuit_open"
    THEN {"success", "error", "circuit_open"}
    ELSE {"success", "error", "details"}

\* The failure test on None.
IsFailure_never(r) == FALSE

\* merchant_result.get('success') is False / not api_result.get("success", True)
IsFailure(r) == r # "ok"

NoSync ==
    [pc |-> "off", page |-> 1, pending |-> 0, size |-> 0,
     total_merchants |-> 0, merchants_added |-> 0, merchants_updated |-> 0,
     merchants_failed |-> 0, errors |-> 0, fetch1 |-> <<>>,
     all |-> <<>>]

\* The pcs at which sync_merchants is inside an _execute_with_resilience call.
CallingPcs == {"fetch", "query", "insert", "update", "upsert"}

\* sync_merchants() is called.
SMBegin ==
    /\ msync.pc = "off"
    /\ msync' = [NoSync EXCEPT !.pc = "fetch"]
    /\ call' = NoCall
    /\ UNCHANGED <<now, impl, cb, hist>>
    /\ UNCHANGED <<qvars, txvars, incvars, xvars>>

\* The wrapper call sync_merchants is waiting for starts, and retries.
SMCall ==
    /\ msync.pc \in CallingPcs
    /\ call.phase = "idle"
    /\ ExecStart

SMRetry ==
    /\ msync.pc \in CallingPcs
    /\ ExecRetry

\* The page fetch has returned: a failure result ends the paging with one
\* error, an empty page ends it, otherwise the merchants are processed.
SMPage ==
    /\ msync.pc = "fetch"
    /\ call.phase = "returned"
    /\ \E n \in LSPageSizes :
         /\ (IsFailure(call.result) \/ msync.page > LSMaxPages) => n = 0
         /\ msync' =
              LET s1 == [msync EXCEPT !.fetch1 = IF msync.page = 1 THEN call.outcomes ELSE @]
              IN  IF IsFailure(call.result)
                  THEN [s1 EXCEPT !.errors = @ + 1, !.pc = "done"]
                  ELSE IF n = 0
                  THEN [s1 EXCEPT !.pc = "done"]
                  ELSE [s1 EXCEPT !.pending = n, !.size = n, !.pc = "merchant"]
    /\ call' = NoCall
    /\ UNCHANGED <<now, impl, cb, hist>>
    /\ UNCHANGED <<qvars, txvars, incvars, xvars>>

\* The next merchant of the page, or the end of the page. iriscrm_sync skips
\* a merchant without merchantNumber as failed and goes on to the next page
\* until one is empty; irelandpay_crm_sync stops after a page shorter than
\* per_page.
SMMerchant ==
    /\ msync.pc = "merchant"
    /\ IF msync.pending = 0
       THEN msync' = IF impl = "iris"
                     THEN [msync EXCEPT !.page = @ + 1, !.pc = "fetch"]
                     ELSE IF msync.size < PER_PAGE
                     THEN [msync EXCEPT !.pc = "done"]
                     ELSE [msync EXCEPT !.page = @ + 1, !.pc = "fetch"]
       ELSE \E missing \in BOOLEAN :
              /\ impl = "ipay" => ~missing
              /\ msync' = IF missing
                          THEN [msync EXCEPT !.merchants_failed = @ + 1,
                                             !.errors = @ + 1,
                                             !.pending = @ - 1]
                          ELSE [msync EXCEPT !.pc = IF impl = "iris" THEN "query"
                                                    ELSE "upsert"]
    /\ call' = NoCall
    /\ UNCHANGED <<now, impl, cb, hist>>
    /\ UNCHANGED <<qvars, txvars, incvars, xvars>>

\* iriscrm_sync: the select for the merchant has returned.
SMQuery ==
    /\ msync.pc = "query"
    /\ call.phase = "returned"
    /\ \E exists \in BOOLEAN :
         /\ IsFailure(call.result) => ~exists
         /\ msync' = IF IsFailure(call.result)
                     THEN [msync EXCEPT !.merchants_failed = @ + 1,
                                        !.errors = @ + 1,
                                        !.pending = @ - 1,
                                        !.pc = "merchant"]
                     ELSE [msync EXCEPT !.pc = IF exists THEN "update" ELSE "insert"]
    /\ call' = NoCall
    /\ UNCHANGED <<now, impl, cb, hist>>
    /\ UNCHANGED <<qvars, txvars, incvars, xvars>>

\* The insert / update (iriscrm_sync) or _upsert_merchant (irelandpay_crm_sync)
\* has returned; the merchant is counted in total_merchants either way.
SMWrite ==
    /\ msync.pc \in {"insert", "update", "upsert"}
    /\ call.phase = "returned"
    /\ \E inserted \in BOOLEAN :
         /\ (msync.pc # "upsert" \/ IsFailure(call.result)) => inserted = (msync.pc = "insert")
         /\ msync' =
              LET s1 == [msync EXCEPT !.total_merchants = @ + 1,
                                      !.pending = @ - 1,
                                      !.pc = "merchant"]
              IN  IF IsFailure(call.result)
                  THEN [s1 EXCEPT !.merchants_failed = @ + 1, !.errors = @ + 1]
                  ELSE IF inserted
                  THEN [s1 EXCEPT !.merchants_added = @ + 1]
                  ELSE [s1 EXCEPT !.merchants_updated = @ + 1]
    /\ call' = NoCall
    /\ UNCHANGED <<now, impl, cb, hist>>
    /\ UNCHANGED <<qvars, txvars, incvars, xvars>>

\* ---- IRISCRMSyncManager.sync_all (lib/iriscrm_sync.py only)
\* The order in which sync_all awaits the family syncs; msync.all records the
\* ones it has called so far.
SyncAllOrder == <<"merchants", "residuals", "volumes">>

\* sync_all() is called and awaits sync_merchants().
SABegin ==
    /\ msync.pc = "off"
    /\ impl = "iris"
    /\ msync' = [NoSync EXCEPT !.pc = "fetch", !.all = <<"merchants">>]
    /\ call' = NoCall
    /\ UNCHANGED <<now, impl, cb, hist>>
    /\ UNCHANGED <<qvars, txvars, incvars, xvars>>

\* sync_merchants has returned its results, whatever they are; sync_all
\* awaits sync_residuals(year, month).
SAResiduals ==
    /\ msync.pc = "done"
    /\ msync.all = <<"merchants">>
    /\ msync' = [msync EXCEPT !.pc = "residuals", !.all = Append(@, "residuals")]
    /\ UNCHANGED <<now, impl, cb, call, hist>>
    /\ UNCHANGED <<qvars, txvars, incvars, xvars>>

\* sync_residuals has returned (it catches every exception); sync_all awaits
\* sync_volumes(year, month).
SAVolumes ==
    /\ msync.pc = "residuals"
    /\ msync' = [msync EXCEPT !.pc = "volumes", !.all = Append(@, "volumes")]
    /\ UNCHANGED <<now, impl, cb, call, hist>>
    /\ UNCHANGED <<qvars, txvars, incvars, xvars>>

\* sync_volumes has returned; the sync_logs row is inserted outside any
\* try, so a failing insert raises out of sync_all.
SALog ==
    /\ msync.pc = "volumes"
    /\ \E inserted \in BOOLEAN :
         msync' = [msync EXCEPT !.pc = IF inserted THEN "all_done" ELSE "all_raised"]
    /\ UNCHANGED <<now, impl, cb, call, hist>>
    /\ UNCHANGED <<qvars, txvars, incvars, xvars>>

CBAtRest ==
    /\ impl = "iris"
    /\ cb = ClosedBreaker
    /\ call = NoCall
    /\ hist = [fsince |-> 0, reset |-> FALSE]
    /\ msync = NoSync

QueueAtRest ==
    /\ jobs = <<>>
    /\ pc = [w \in Workers |-> "idle"]
    /\ held = [w \in Workers |-> 0]
    /\ ret = Ret("init", 0, 0, TRUE, FALSE)

(***************************************************************************)
(* sync-iriscrm/transaction_client.py (TransactionClient) and              *)
(* sync-irelandpay-crm/iriscrm_sync.py (IrelandPayCRMSync)                 *)
(***************************************************************************)
MERCHANT_BATCH_SIZE == 50
RESIDUAL_BATCH_SIZE == 100

MaxRaises == 1      \* batch_upsert calls that raise inside one record loop

PageSizes == {0, 30, 100}       \* records a fetch returns
LastPages == {1, 2}             \* meta.last_page of the merchants listing
BatchFailures == {0, 5, 10}     \* "failed" counts a batch_upsert reports
MissingIds == {0, 5}            \* residual lines without merchant_number
RunKinds == {"merchants", "residuals", "all"}
Families == {"m", "r"}

\* The results dictionary of sync_merchants / sync_residuals_with_transaction:
\* total_*, *_failed and transaction_status ("none": key absent), with the
\* way the function ended (how) and the transaction it started (tx).
NoResults == [total |-> 0, failed |-> 0, status |-> "none", how |-> "none", tx |-> 0]

NoRun ==
    [top |-> "none", pc |-> "idle", nested |-> FALSE,
     page |-> 1, total_pages |-> 1, rem |-> 0, batch |-> 0, raises |-> 0,
     sent |-> 0, rpc_raised |-> FALSE,
     m |-> NoResults, r |-> NoResults,
     a |-> [success |-> TRUE, status |-> "none", tx |-> 0],
     w |-> [tx |-> 0, body |-> "none", rollback |-> "none"]]

\* The sink's transaction functions (start_sync_transaction,
\* commit_sync_transaction, rollback_sync_transaction).
SinkStart(kind) == Append(txs, [kind |-> kind, status |-> "pending"])

SinkEnd(id, status) ==
    IF txs[id].status = "pending" THEN [txs EXCEPT ![id].status = status] ELSE txs

SinkEndReturns(id) == txs[id].status = "pending"

\* 'failed > total * 0.1' on integer counts.
TooManyFailures_atleast(failed, total) == 10 * failed >= total

TooManyFailures(failed, total) == 10 * failed > total

\* The record loop up to its next batch_upsert call: the records (at most
\* rem) appended to a batch of length b before the call is made, 0 if the
\* loop ends without a call.
Consumed(b, rem, size) ==
    LET need == IF b < size THEN size - b ELSE 1
    IN  IF rem >= need THEN need ELSE 0

Results(rn, fam) == IF fam = "m" THEN rn.m ELSE rn.r

WithResults(rn, fam, res) == IF fam = "m" THEN [rn EXCEPT !.m = res] ELSE [rn EXCEPT !.r = res]

\* Where a sync function that has returned goes: back to sync_all, or done.
AfterFamily(rn, fam) ==
    IF rn.nested
    THEN (IF fam = "m" THEN "a_after_m" ELSE "a_after_r")
    ELSE "done"

\* The outer except handler of sync_merchants / sync_residuals_with_transaction
\* is entered.
ToExcept(rn, fam) ==
    [WithResults(rn, fam, [Results(rn, fam) EXCEPT !.how = "except"])
        EXCEPT !.pc = IF fam = "m" THEN "m_except" ELSE "r_except"]

\* TransactionClient.commit_transaction / rollback_transaction with an active
\* transaction and the request answered: the id is dropped on a True result.
EndTransaction(status) ==
    /\ txs' = SinkEnd(txid, status)
    /\ txid' = IF SinkEndReturns(txid) THEN 0 ELSE txid

\* A sync is invoked on a fresh IrelandPayCRMSync.
BeginRun ==
    /\ run.pc = "idle"
    /\ \E k \in RunKinds :
         run' = [NoRun EXCEPT !.top = k,
                              !.pc = CASE k = "merchants" -> "m_start"
                                       [] k = "residuals" -> "r_start"
                                       [] OTHER -> "a_start"]
    /\ UNCHANGED <<txs, txid>>
    /\ UNCHANGED <<now, qvars, cbvars, incvars, xvars>>

\* ---- the two family syncs, fam "m": sync_merchants, fam "r":
\* ---- sync_residuals_with_transaction under sync_residuals

\* tx_client.start_transaction(family)
FamilyStart(fam) ==
    \E rpc \in {"ok", "raise"} :
        IF rpc = "ok"
        THEN /\ txs' = SinkStart(IF fam = "m" THEN "merchants" ELSE "residuals")
             /\ txid' = Len(txs) + 1
             /\ run' = [WithResults(run, fam, [NoResults EXCEPT !.tx = Len(txs) + 1])
                           EXCEPT !.pc = IF fam = "m" THEN "m_fetch" ELSE "r_fetch",
                                  !.batch = 0, !.rem = 0, !.raises = 0]
        ELSE /\ UNCHANGED <<txs, txid>>
             /\ run' = [ToExcept(run, fam) EXCEPT !.rpc_raised = TRUE]

\* The records are appended to the batch; a batch of batch_size or more is
\* sent. batch_upsert raising is caught per record: one failure is counted
\* and the batch is kept.
FamilyLoop(fam, size, endpc) ==
    LET k == Consumed(run.batch, run.rem, size)
        res == Results(run, fam)
    IN  IF k = 0
        THEN run' = [run EXCEPT !.batch = @ + run.rem, !.rem = 0,
                                !.page = @ + 1, !.pc = endpc]
        ELSE \E rpc \in {"ok", "raise"}, f \in BatchFailures :
               IF rpc = "ok"
               THEN /\ txid # 0
                    /\ f <= run.batch + k
                    /\ run' = [WithResults(run, fam, [res EXCEPT !.failed = @ + f])
                                  EXCEPT !.rem = @ - k, !.batch = 0,
                                         !.sent = run.batch + k]
               ELSE /\ f = 0
                    /\ run.raises < MaxRaises
                    /\ run' = [WithResults(run, fam, [res EXCEPT !.failed = @ + 1])
                                  EXCEPT !.rem = @ - k, !.batch = @ + k,
                                         !.sent = run.batch + k,
                                         !.raises = @ + 1,
                                         !.rpc_raised = TRUE]

\* The remaining batch is sent; here a raise reaches the outer handler.
FamilyFinal(fam, nextpc) ==
    LET res == Results(run, fam)
    IN  IF run.batch = 0
        THEN run' = [run EXCEPT !.pc = nextpc]
        ELSE \E rpc \in {"ok", "raise"}, f \in BatchFailures :
               IF rpc = "ok"
               THEN /\ txid # 0
                    /\ f <= run.batch
                    /\ run' = [WithResults(run, fam, [res EXCEPT !.failed = @ + f])
                                  EXCEPT !.batch = 0, !.sent = run.batch,
                                         !.pc = nextpc]
               ELSE /\ f = 0
                    /\ run' = [ToExcept(run, fam) EXCEPT !.sent = run.batch,
                                                         !.rpc_raised = TRUE]

\* The threshold check and the rollback or commit it leads to; the run is
\* marked once the call has returned.
FamilyDecide(fam) ==
    LET res == Results(run, fam)
        want == IF TooManyFailures(res.failed, res.total)
                THEN "rolled_back" ELSE "committed"
    IN  \E rpc \in {"ok", "raise"} :
          IF rpc = "ok"
          THEN /\ txid # 0
               /\ EndTransaction(want)
               /\ run' = [WithResults(run, fam, [res EXCEPT !.status = want,
                                                            !.how = "check"])
                             EXCEPT !.pc = AfterFamily(run, fam)]
          ELSE /\ UNCHANGED <<txs, txid>>
               /\ run' = [ToExcept(run, fam) EXCEPT !.rpc_raised = TRUE]

\* except Exception: roll back if the client holds a transaction id. A raise
\* in here leaves the function: sync_merchants raises to its caller,
\* sync_residuals catches it and returns its own empty results.
FamilyExcept(fam) ==
    LET res == Results(run, fam)
    IN  IF txid = 0
        THEN /\ UNCHANGED <<txs, txid>>
             /\ run' = [WithResults(run, fam, [res EXCEPT !.how = "handled"])
                           EXCEPT !.pc = AfterFamily(run, fam)]
        ELSE \E rpc \in {"ok", "raise"} :
               IF rpc = "ok"
               THEN /\ EndTransaction("rolled_back")
                    /\ run' = [WithResults(run, fam, [res EXCEPT !.status = "rolled_back",
                                                                 !.how = "handled"])
                                  EXCEPT !.pc = AfterFamily(run, fam)]
               ELSE /\ UNCHANGED <<txs, txid>>
                    /\ run' = IF fam = "m"
                              THEN [run EXCEPT !.pc = IF run.nested THEN "a_except" ELSE "raised",
                                               !.m.how = "raised",
                                               !.rpc_raised = TRUE]
                              ELSE [run EXCEPT !.pc = AfterFamily(run, fam),
                                               !.r = [NoResults EXCEPT !.how = "raised",
                                                                       !.tx = res.tx],
                                               !.rpc_raised = TRUE]

\* ---- sync_merchants
MStart ==
    /\ run.pc = "m_start"
    /\ FamilyStart("m")
    /\ UNCHANGED <<now, qvars, cbvars, incvars, xvars>>

\* while page <= total_pages: get_merchants(page); no 'data' breaks the loop.
MFetch ==
    /\ run.pc = "m_fetch"
    /\ IF run.page > run.total_pages
       THEN run' = [run EXCEPT !.pc = "m_final"]
       ELSE \E api \in {"data", "nodata", "raise"}, n \in PageSizes, lp \in LastPages :
              CASE api = "raise" -> /\ n = 0 /\ lp = 1
                                    /\ run' = ToExcept(run, "m")
                [] api = "nodata" -> /\ n = 0 /\ lp = 1
                                     /\ run' = [run EXCEPT !.pc = "m_final"]
                [] OTHER ->
                     /\ run.page # 1 => lp = 1
                     /\ run' = [run EXCEPT !.pc = "m_loop",
                                           !.total_pages = IF run.page = 1 THEN lp ELSE @,
                                           !.rem = n,
                                           !.m.total = @ + n]
    /\ UNCHANGED <<txs, txid>>
    /\ UNCHANGED <<now, qvars, cbvars, incvars, xvars>>

MLoop ==
    /\ run.pc = "m_loop"
    /\ FamilyLoop("m", MERCHANT_BATCH_SIZE, "m_fetch")
    /\ UNCHANGED <<txs, txid>>
    /\ UNCHANGED <<now, qvars, cbvars, incvars, xvars>>

MFinal ==
    /\ run.pc = "m_final"
    /\ FamilyFinal("m", "m_decide")
    /\ UNCHANGED <<txs, txid>>
    /\ UNCHANGED <<now, qvars, cbvars, incvars, xvars>>

MDecide ==
    /\ run.pc = "m_decide"
    /\ FamilyDecide("m")
    /\ UNCHANGED <<now, qvars, cbvars, incvars, xvars>>

MExcept ==
    /\ run.pc = "m_except"
    /\ FamilyExcept("m")
    /\ UNCHANGED <<now, qvars, cbvars, incvars, xvars>>

\* ---- sync_residuals -> sync_residuals_with_transaction
RStart ==
    /\ run.pc = "r_start"
    /\ FamilyStart("r")
    /\ UNCHANGED <<now, qvars, cbvars, incvars, xvars>>

\* get_residuals_lineitems: without 'data' the transaction is rolled back and
\* the function returns; lines without merchant_number count as failed and
\* are skipped.
RFetch ==
    /\ run.pc = "r_fetch"
    /\ \E api \in {"data", "nodata", "raise"}, n \in PageSizes, k \in MissingIds,
          rpc \in {"ok", "raise"} :
         CASE api = "raise" ->
                /\ n = 0 /\ k = 0 /\ rpc = "ok"
                /\ run' = ToExcept(run, "r")
                /\ UNCHANGED <<txs, txid>>
           [] api = "nodata" ->
                /\ n = 0 /\ k = 0
                /\ IF rpc = "ok"
                   THEN /\ txid # 0
                        /\ EndTransaction("rolled_back")
                        /\ run' = [run EXCEPT !.r.status = "rolled_back",
                                              !.r.how = "nodata",
                                              !.pc = AfterFamily(run, "r")]
                   ELSE /\ UNCHANGED <<txs, txid>>
                        /\ run' = [ToExcept(run, "r") EXCEPT !.rpc_raised = TRUE]
           [] OTHER ->
                /\ k <= n /\ rpc = "ok"
                /\ run' = [run EXCEPT !.pc = "r_loop",
                                      !.rem = n - k,
                                      !.r.total = n,
                                      !.r.failed = @ + k]
                /\ UNCHANGED <<txs, txid>>
    /\ UNCHANGED <<now, qvars, cbvars, incvars, xvars>>

RLoop ==
    /\ run.pc = "r_loop"
    /\ FamilyLoop("r", RESIDUAL_BATCH_SIZE, "r_final")
    /\ UNCHANGED <<txs, txid>>
    /\ UNCHANGED <<now, qvars, cbvars, incvars, xvars>>

RFinal ==
    /\ run.pc = "r_final"
    /\ FamilyFinal("r", "r_decide")
    /\ UNCHANGED <<txs, txid>>
    /\ UNCHANGED <<now, qvars, cbvars, incvars, xvars>>

RDecide ==
    /\ run.pc = "r_decide"
    /\ FamilyDecide("r")
    /\ UNCHANGED <<now, qvars, cbvars, incvars, xvars>>

RExcept ==
    /\ run.pc = "r_except"
    /\ FamilyExcept("r")
    /\ UNCHANGED <<now, qvars, cbvars, incvars, xvars>>

\* ---- sync_all
\* start_transaction('all'), then sync_merchants() on the same client.
AStart ==
    /\ run.pc = "a_start"
    /\ \E rpc \in {"ok", "raise"} :
         IF rpc = "ok"
         THEN /\ txs' = SinkStart("all")
              /\ txid' = Len(txs) + 1
              /\ run' = [run EXCEPT !.pc = "m_start", !.nested = TRUE,
                                    !.a.status = "started",
                                    !.a.tx = Len(txs) + 1]
         ELSE /\ UNCHANGED <<txs, txid>>
              /\ run' = [run EXCEPT !.pc = "a_except", !.a.status = "started",
                                    !.rpc_raised = TRUE]
    /\ UNCHANGED <<now, qvars, cbvars, incvars, xvars>>

\* results["merchants"].get("transaction_status") == "rolled_back"
MerchantsRolledBack_never(res) == FALSE

MerchantsRolledBack(res) == res.status = "rolled_back"

\* sync_merchants has returned: a rolled-back merchants sync ends the run with
\* rollback_transaction (ValueError without an active transaction), otherwise
\* sync_residuals is called.
AAfterMerchants ==
    /\ run.pc = "a_after_m"
    /\ IF MerchantsRolledBack(run.m)
       THEN IF txid = 0
            THEN /\ UNCHANGED <<txs, txid>>
                 /\ run' = [run EXCEPT !.a.success = FALSE, !.pc = "a_except"]
            ELSE \E rpc \in {"ok", "raise"} :
                   IF rpc = "ok"
                   THEN /\ EndTransaction("rolled_back")
                        /\ run' = [run EXCEPT !.a.success = FALSE,
                                              !.a.status = "rolled_back",
                                              !.pc = "done"]
                   ELSE /\ UNCHANGED <<txs, txid>>
                        /\ run' = [run EXCEPT !.a.success = FALSE,
                                              !.pc = "a_except",
                                              !.rpc_raised = TRUE]
       ELSE /\ UNCHANGED <<txs, txid>>
            /\ run' = [run EXCEPT !.pc = "r_start"]
    /\ UNCHANGED <<now, qvars, cbvars, incvars, xvars>>

\* sync_residuals has returned: roll back "any ongoing transaction" if the
\* residuals were rolled back, else commit "the final transaction (if still
\* active)".
AAfterResiduals ==
    /\ run.pc = "a_after_r"
    /\ LET ok == run.m.status # "rolled_back" /\ run.r.status # "rolled_back"
           end == IF ok THEN "committed" ELSE "rolled_back"
       IN  IF txid = 0
           THEN /\ UNCHANGED <<txs, txid>>
                /\ run' = [run EXCEPT !.a.success = ok, !.pc = "done"]
           ELSE \E rpc \in {"ok", "raise"} :
                  IF rpc = "ok"
                  THEN /\ EndTransaction(end)
                       /\ run' = [run EXCEPT !.a.success = ok,
                                             !.a.status = end,
                                             !.pc = "done"]
                  ELSE /\ UNCHANGED <<txs, txid>>
                       /\ run' = [run EXCEPT !.a.success = ok,
                                             !.pc = "a_except",
                                             !.rpc_raised = TRUE]
    /\ UNCHANGED <<now, qvars, cbvars, incvars, xvars>>

\* except Exception in sync_all.
AExcept ==
    /\ run.pc = "a_except"
    /\ IF txid = 0
       THEN /\ UNCHANGED <<txs, txid>>
            /\ run' = [run EXCEPT !.a.success = FALSE, !.pc = "done"]
       ELSE \E rpc \in {"ok", "raise"} :
              IF rpc = "ok"
              THEN /\ EndTransaction("rolled_back")
                   /\ run' = [run EXCEPT !.a.success = FALSE,
                                         !.a.status = "rolled_back",
                                         !.pc = "done"]
              ELSE /\ UNCHANGED <<txs, txid>>
                   /\ run' = [run EXCEPT !.a.success = FALSE,
                                         !.pc = "raised",
                                         !.rpc_raised = TRUE]
    /\ UNCHANGED <<now, qvars, cbvars, incvars, xvars>>

\* ---- with TransactionClient(url, key) as tx: ... (the context manager)
\* What the body of a with block does after start_transaction: it commits,
\* its commit request fails, another statement raises, or it ends without a
\* commit.
WithBodies == {"commit", "commit_raises", "raise", "exit"}

\* 'if self.transaction_id:' of __exit__.
ActiveTransaction_never(id) == FALSE

ActiveTransaction(id) == id # 0

\* TransactionClient(url, key) and __enter__: a fresh client, no transaction.
WithEnter ==
    /\ run.pc = "idle"
    /\ run' = [NoRun EXCEPT !.top = "with", !.pc = "w_start"]
    /\ UNCHANGED <<txs, txid>>
    /\ UNCHANGED <<now, qvars, cbvars, incvars, xvars>>

\* tx.start_transaction(...) as the first statement of the block; a request
\* that raises leaves the block with no transaction id.
WithStart ==
    /\ run.pc = "w_start"
    /\ \E rpc \in {"ok", "raise"} :
         IF rpc = "ok"
         THEN /\ txs' = SinkStart("with")
              /\ txid' = Len(txs) + 1
              /\ run' = [run EXCEPT !.pc = "w_body", !.w.tx = Len(txs) + 1]
         ELSE /\ UNCHANGED <<txs, txid>>
              /\ run' = [run EXCEPT !.pc = "w_exit", !.w.body = "raise",
                                    !.rpc_raised = TRUE]
    /\ UNCHANGED <<now, qvars, cbvars, incvars, xvars>>

\* The rest of the block, up to the point where control leaves it.
WithBody ==
    /\ run.pc = "w_body"
    /\ \E b \in WithBodies :
         /\ IF b = "commit"
            THEN EndTransaction("committed")
            ELSE UNCHANGED <<txs, txid>>
         /\ run' = [run EXCEPT !.pc = "w_exit", !.w.body = b,
                               !.rpc_raised = (@ \/ b = "commit_raises")]
    /\ UNCHANGED <<now, qvars, cbvars, incvars, xvars>>

\* __exit__: an uncommitted transaction is rolled back; exceptions are not
\* suppressed (return False), and a failing rollback request raises out of
\* __exit__.
WithExit ==
    /\ run.pc = "w_exit"
    /\ LET exc == run.w.body \in {"raise", "commit_raises"}
           endpc == IF exc THEN "raised" ELSE "done"
       IN  IF ActiveTransaction(txid)
           THEN \E rpc \in {"ok", "raise"} :
                  IF rpc = "ok"
                  THEN /\ EndTransaction("rolled_back")
                       /\ run' = [run EXCEPT !.pc = endpc, !.w.rollback = "ok"]
                  ELSE /\ UNCHANGED <<txs, txid>>
                       /\ run' = [run EXCEPT !.pc = "raised",
                                             !.w.rollback = "raised",
                                             !.rpc_raised = TRUE]
           ELSE /\ UNCHANGED <<txs, txid>>
                /\ run' = [run EXCEPT !.pc = endpc]
    /\ UNCHANGED <<now, qvars, cbvars, incvars, xvars>>

TxAtRest ==
    /\ txs = <<>>
    /\ txid = 0
    /\ run = NoRun

(***************************************************************************)
(* scripts/sync/incremental_sync.py (IncrementalSync)                      *)
(***************************************************************************)
IncMaxTime == 6     \* the clock of the incremental syncs stops here

DEFAULT_LOOKBACK == 30          \* timedelta(days=30)
NoWatermark == [last_sync_time |-> NULL, last_record_count |-> 0]

NoInc ==
    [pc |-> "none", last_sync_time |-> NULL, changed |-> 0, deleted |-> 0,
     fetch_failed |-> FALSE, upsert_failed |-> FALSE, delete_failed |-> FALSE,
     processed |-> 0, queried |-> NULL]

\* IncrementalSync(data_type, scope): _get_last_sync_time reads the watermark
\* and falls back to 30 days ago when there is none or the read raises.
IncConstruct ==
    /\ inc.pc \in {"none", "done"}
    /\ \E rpc \in {"ok", "raise"} :
         inc' = [NoInc EXCEPT
                   !.pc = "ready",
                   !.last_sync_time =
                       IF rpc = "ok" /\ wm.last_sync_time # NULL
                       THEN wm.last_sync_time
                       ELSE now - DEFAULT_LOOKBACK]
    /\ UNCHANGED <<wm, ac, now, qvars, cbvars, txvars, xvars>>

\* _get_changed_records_from_api: the request URL is built from the name
\* IRIS_CRM_BASE_URL, which the module never defines (it defines
\* IRELANDPAY_CRM_BASE_URL), so the NameError is caught and the function
\* returns no changed and no deleted records.
IncFetch ==
    /\ inc.pc = "ready"
    /\ inc' = [inc EXCEPT !.pc = "fetched", !.changed = 0, !.deleted = 0,
                          !.fetch_failed = TRUE, !.queried = now]
    /\ UNCHANGED <<wm, ac, now, qvars, cbvars, txvars, xvars>>

\* _apply_changes: the changed records whose hash differs are upserted, the
\* deleted ids deleted; an exception of either step is logged and dropped.
IncApply ==
    /\ inc.pc = "fetched"
    /\ \E upsert \in {"ok", "raise"}, delete \in {"ok", "raise"}, dirty \in 0..inc.changed :
         /\ inc.changed = 0 => upsert = "ok"
         /\ (inc.changed = 0 \/ upsert = "raise") => dirty = 0
         /\ inc.deleted = 0 => delete = "ok"
         /\ inc' = [inc EXCEPT
                      !.pc = "applied",
                      !.upsert_failed = (upsert = "raise"),
                      !.delete_failed = (delete = "raise"),
                      !.processed = dirty + (IF delete = "ok" THEN inc.deleted ELSE 0)]
    /\ UNCHANGED <<wm, ac, now, qvars, cbvars, txvars, xvars>>

\* _update_sync_watermark(record_count=processed_count): sync_time defaults
\* to utcnow(); an exception of the RPC is logged and dropped.
IncUpdateWatermark ==
    /\ inc.pc = "applied"
    /\ \E rpc \in {"ok", "raise"} :
         wm' = IF rpc = "ok"
               THEN [last_sync_time |-> now, last_record_count |-> inc.processed]
               ELSE wm
    /\ inc' = [inc EXCEPT !.pc = "done"]
    /\ UNCHANGED <<ac, now, qvars, cbvars, txvars, xvars>>

\* _update_sync_watermark(sync_time=t) on a constructed IncrementalSync: the
\* timestamp passed is sent to update_sync_watermark as it is; record_count
\* stays None.
UpdateSyncWatermark ==
    /\ inc.pc \in {"ready", "done"}
    /\ \E t \in 0..now, rpc \in {"ok", "raise"} :
         /\ rpc = "raise" => t = now
         /\ wm' = IF rpc = "ok" THEN [wm EXCEPT !.last_sync_time = t] ELSE wm
    /\ UNCHANGED <<inc, ac, now, qvars, cbvars, txvars, xvars>>

IncTick ==
    /\ now < IncMaxTime
    /\ now' = now + 1
    /\ UNCHANGED <<wm, inc, ac, qvars, cbvars, txvars, xvars>>

\* ---- _generate_record_hash and _apply_changes
MaxApplications == 2    \* _apply_changes calls on the record

FieldValues == {1, 2}
IdFields == {"id", "merchant_id"}       \* id_field
VolatileFields ==
    {"created_at", "updated_at", "last_sync_at", "last_modified_at", "hash_value"}

\* The field names in the order json.dumps(sort_keys=True) writes them.
SortedFields ==
    <<"created_at", "hash_value", "id", "last_modified_at", "last_sync_at",
      "merchant_id", "name", "updated_at">>

FieldRank(f) == CHOOSE k \in 1..Len(SortedFields) : SortedFields[k] = f

\* A record is a dict: the sequence of its (field, value) items in insertion
\* order.
HasField(rec, f) == \E i \in 1..Len(rec) : rec[i][1] = f

\* record.get(f)
Get(rec, f) ==
    IF HasField(rec, f)
    THEN rec[CHOOSE i \in 1..Len(rec) : rec[i][1] = f][2]
    ELSE NULL

\* record[f] = v
Put(rec, f, v) ==
    IF HasField(rec, f)
    THEN [i \in 1..Len(rec) |-> IF rec[i][1] = f THEN <<f, v>> ELSE rec[i]]
    ELSE Append(rec, <<f, v>>)

Reverse(s) == [k \in 1..Len(s) |-> s[Len(s) + 1 - k]]

RecordOf(i, m, n, u) ==
    (IF i # NULL THEN << <<"id", i>> >> ELSE <<>>)
    \o (IF m # NULL THEN << <<"merchant_id", m>> >> ELSE <<>>)
    \o << <<"name", n>> >>
    \o (IF u # NULL THEN << <<"updated_at", u>> >> ELSE <<>>)

\* The records the API may return for one merchant, in either field order.
ApiRecords ==
    LET base == {RecordOf(i, m, n, u) : i \in FieldValues \cup {NULL},
                                        m \in FieldValues \cup {NULL},
                                        n \in FieldValues,
                                        u \in FieldValues \cup {NULL}}
    IN  base \cup {Reverse(r) : r \in base}

\* json.dumps(record_copy, sort_keys=True): the items sorted by field name.
RECURSIVE SortKeys(_)
SortKeys(s) ==
    IF s = <<>>
    THEN <<>>
    ELSE LET i == CHOOSE i \in 1..Len(s) :
                    \A j \in 1..Len(s) : FieldRank(s[i][1]) <= FieldRank(s[j][1])
         IN  <<s[i]>> \o SortKeys([k \in 1..(Len(s) - 1) |->
                                     IF k < i THEN s[k] ELSE s[k + 1]])

\* _generate_record_hash: the volatile fields are popped and the canonical
\* JSON is hashed; the sha256 digest stands for the canonical text itself.
generate_record_hash(rec) ==
    SortKeys(SelectSeq(rec, LAMBDA item : item[1] \notin VolatileFields))

\* table.upsert(rows) of the sink store: the row with the same primary key
\* id is replaced, a row without id is inserted under a generated id.
TableUpsert(table, row) ==
    IF HasField(row, "id")
    THEN {r \in table : Get(r, "id") # Get(row, "id")} \cup {row}
    ELSE table \cup {Put(row, "id", 10 + Cardinality(table))}

NoApply == [table |-> {}, rec |-> <<>>, id_field |-> "id", log |-> <<>>]

\* _apply_changes(table_name, [rec], set(), id_field): the existing rows are
\* selected by their id column (no rows if the select raises), the record is
\* upserted if no row was found or the row's hash_value differs; an exception
\* of the upsert is logged and dropped. The log entry keeps what happened and
\* whether the table held a row for the record's id_field value, with the
\* same hash.
ApplyChanges ==
    /\ ac.rec # <<>>
    /\ Len(ac.log) < MaxApplications
    /\ \E select \in {"ok", "raise"}, upsert \in {"ok", "raise"} :
         LET record_id == Get(ac.rec, ac.id_field)
             existing == IF select = "ok"
                         THEN {row \in ac.table : Get(row, "id") = record_id}
                         ELSE {}
             new_hash == generate_record_hash(ac.rec)
             dirty == \/ existing = {}
                      \/ \E row \in existing :
                            \/ ~HasField(row, "hash_value")
                            \/ Get(row, "hash_value") # new_hash
             stamped == Put(Put(ac.rec, "hash_value", new_hash),
                            "last_modified_at", now)
             written == dirty /\ upsert = "ok"
             stored == {row \in ac.table :
                          /\ record_id # NULL
                          /\ HasField(row, ac.id_field)
                          /\ Get(row, ac.id_field) = record_id}
         IN  /\ ~dirty => upsert = "ok"
             /\ ac' = [ac EXCEPT
                         !.table = IF written THEN TableUpsert(@, stamped) ELSE @,
                         !.log = Append(@,
                            [written |-> written,
                             select_ok |-> select = "ok",
                             upsert_ok |-> upsert = "ok",
                             known |-> stored # {},
                             same_hash |-> \E row \in stored :
                                              Get(row, "hash_value") = new_hash])]
    /\ UNCHANGED <<wm, inc, now, qvars, cbvars, txvars, xvars>>

\* Between two calls the API returns the merchant again: the same
\* identifiers, any field order, any name and updated_at.
RemoteEdit ==
    /\ Len(ac.log) = 1
    /\ \E r \in ApiRecords :
         /\ r # ac.rec
         /\ Get(r, "id") = Get(ac.rec, "id")
         /\ Get(r, "merchant_id") = Get(ac.rec, "merchant_id")
         /\ ac' = [ac EXCEPT !.rec = r]
    /\ UNCHANGED <<wm, inc, now, qvars, cbvars, txvars, xvars>>

(***************************************************************************)
(* Idempotent upsert: one batch of merchant records applied twice to the  *)
(* merchants table, either record by record through _upsert_merchant      *)
(* (lib/irelandpay_crm_sync.py) or in one batch_upsert call of the        *)
(* TransactionClient, whose rows are written by the sink's                *)
(* atomic_batch_upsert function.                                          *)
(***************************************************************************)
MaxBatch == 2
MaxTableRows == 1

MerchantKeys == 1..2

\* a transformed merchant record: its natural key and the rest of its fields
MerchantRecords == [mid : MerchantKeys, v : FieldValues]

Batches == UNION {[1..n -> MerchantRecords] : n \in 0..MaxBatch}

\* tables an earlier run can have left: at most one row per key
StoredTables ==
    {t \in UNION {[1..n -> MerchantRecords] : n \in 0..MaxTableRows} :
        \A a, b \in 1..Len(t) : t[a].mid = t[b].mid => a = b}

DbOutcomes == {"ok", "raise"}

ZeroReport == [inserted |-> 0, updated |-> 0, failed |-> 0, raised |-> FALSE]

SelectByMid_never(table, mid) == <<>>

\* table("merchants").select("*").eq("mid", mid)
SelectByMid(table, mid) == SelectSeq(table, LAMBDA row : row.mid = mid)

\* table("merchants").update(merchant_data).eq("mid", mid)
UpdateByMid(table, rec) ==
    [k \in 1..Len(table) |-> IF table[k].mid = rec.mid THEN rec ELSE table[k]]

\* _upsert_merchant: the table it leaves and the dictionary it returns
upsert_merchant(table, rec, db) ==
    IF db = "raise"
    THEN [table |-> table, success |-> FALSE, action |-> "none"]
    ELSE IF SelectByMid(table, rec.mid) # <<>>
         THEN [table |-> UpdateByMid(table, rec), success |-> TRUE, action |-> "updated"]
         ELSE [table |-> Append(table, rec), success |-> TRUE, action |-> "inserted"]

\* the loop of sync_merchants over the records, with its counters
RECURSIVE UpsertEach(_, _, _, _)
UpsertEach(table, batch, outs, rep) ==
    IF batch = <<>>
    THEN [table |-> table, rep |-> rep]
    ELSE LET r == upsert_merchant(table, Head(batch), Head(outs))
         IN UpsertEach(r.table, Tail(batch), Tail(outs),
                IF ~r.success THEN [rep EXCEPT !.failed = @ + 1]
                ELSE IF r.action = "inserted" THEN [rep EXCEPT !.inserted = @ + 1]
                ELSE [rep EXCEPT !.updated = @ + 1])

\* the sink's atomic_batch_upsert: insert, or update on a conflict on the
\* conflict target; a record that fails is counted and leaves no row
RECURSIVE atomic_batch_upsert(_, _, _, _)
atomic_batch_upsert(table, batch, outs, rep) ==
    IF batch = <<>>
    THEN [table |-> table, rep |-> rep]
    ELSE LET rec == Head(batch)
             hit == \E k \in 1..Len(table) : table[k].mid = rec.mid
         IN IF Head(outs) = "raise"
            THEN atomic_batch_upsert(table, Tail(batch), Tail(outs),
                     [rep EXCEPT !.failed = @ + 1])
            ELSE IF hit
            THEN atomic_batch_upsert(UpdateByMid(table, rec), Tail(batch), Tail(outs),
                     [rep EXCEPT !.updated = @ + 1])
            ELSE atomic_batch_upsert(Append(table, rec), Tail(batch), Tail(outs),
                     [rep EXCEPT !.inserted = @ + 1])

\* TransactionClient.batch_upsert
batch_upsert(table, tx, batch, outs) ==
    IF tx = 0
    THEN [table |-> table, rep |-> [ZeroReport EXCEPT !.raised = TRUE]]
    ELSE IF batch = <<>>
    THEN [table |-> table, rep |-> ZeroReport]
    ELSE atomic_batch_upsert(table, batch, outs, ZeroReport)

NoUp == [path |-> "none", tx |-> 0, batch |-> <<>>, table |-> <<>>,
         first |-> <<>>, reps |-> <<>>]

Applied(r) ==
    [up EXCEPT !.table = r.table,
               !.reps = Append(@, r.rep),
               !.first = IF Len(up.reps) = 0 THEN r.table ELSE @]

\* one application of the batch, record by record
ApplyUpsertMerchant ==
    /\ up.path = "lib"
    /\ Len(up.reps) < 2
    /\ \E outs \in [1..Len(up.batch) -> DbOutcomes] :
         up' = Applied(UpsertEach(up.table, up.batch, outs, ZeroReport))
    /\ UNCHANGED <<qp, now, qvars, cbvars, txvars, incvars>>

\* one application of the batch, in one batch_upsert call
ApplyBatchUpsert ==
    /\ up.path = "rpc"
    /\ Len(up.reps) < 2
    /\ \E outs \in [1..Len(up.batch) -> DbOutcomes] :
         up' = Applied(batch_upsert(up.table, up.tx, up.batch, outs))
    /\ UNCHANGED <<qp, now, qvars, cbvars, txvars, incvars>>

(***************************************************************************)
(* QueueProcessor (sync-irelandpay-crm/queue_processor.py): the worker     *)
(* loop of start(), _get_next_job, _process_job, _mark_job_completed and   *)
(* _handle_job_failure over the sync_queue rows.  The processor's clock    *)
(* is kept at 0: a sleep of d seconds moves every next_retry d seconds     *)
(* nearer, so next_retry holds the seconds left until the job is due.      *)
(***************************************************************************)
QP_MAX_RETRIES == 5
BASE_RETRY_DELAY == 30
MAX_RETRY_DELAY == 3600
RETRY_JITTER == 10
PROCESSING_INTERVAL == 15
MAX_CONSECUTIVE_ERRORS == 3

MaxQPJobs == 1      \* rows of the sync_queue table
MaxFaults == 3      \* sink requests that raise
MaxCrashes == 1     \* worker processes that die while a job is running

Min(a, b) == IF a <= b THEN a ELSE b

JobTypes == {"merchants", "all", "export"}
SyncJobTypes == {"merchants", "residuals", "volumes", "all"}
Jitters == {0, RETRY_JITTER}
RunResults == {"success", "failure"}

QPRow(type, status) ==
    [job_type |-> type, status |-> status, retry_count |-> 0,
     next_retry |-> NULL, last_error |-> "NULL", result |-> "NULL"]

QueuedRows == {QPRow(t, s) : t \in JobTypes, s \in {"pending", "cancelled"}}

\* the sink's get_next_sync_job: the oldest job that is pending, or retrying
\* and due, claimed in the same request (0: none)
ReadyJob(row) ==
    \/ row.status = "pending"
    \/ row.status = "retrying" /\ row.next_retry # NULL /\ row.next_retry <= 0

get_next_sync_job(rows) ==
    IF \E k \in 1..Len(rows) : ReadyJob(rows[k])
    THEN CHOOSE k \in 1..Len(rows) :
            ReadyJob(rows[k]) /\ \A i \in 1..(k - 1) : ~ReadyJob(rows[i])
    ELSE 0

\* time.sleep(d)
Slept(rows, d) ==
    [k \in 1..Len(rows) |->
        IF rows[k].next_retry = NULL THEN rows[k]
        ELSE [rows[k] EXCEPT !.next_retry = IF @ > d THEN @ - d ELSE 0]]

\* _update_job_status: the update is lost when the request raises
update_job_status(rows, j, db, new) == IF db = "ok" THEN [rows EXCEPT ![j] = new] ELSE rows

\* _mark_job_completed
mark_job_completed(rows, j, db, result) ==
    update_job_status(rows, j, db,
        [rows[j] EXCEPT !.status = "completed", !.result = result])

\* _handle_job_failure; rcu tells whether the separate retry_count update
\* is answered
handle_job_failure(rows, j, db, rcu, retry_count, jitter) ==
    IF retry_count >= QP_MAX_RETRIES
    THEN update_job_status(rows, j, db,
             [rows[j] EXCEPT !.status = "failed", !.last_error = "error",
                             !.result = "failure"])
    ELSE LET delay == Min(BASE_RETRY_DELAY * Pow2(retry_count) + jitter, MAX_RETRY_DELAY)
             marked == update_job_status(rows, j, db,
                          [rows[j] EXCEPT !.status = "retrying",
                                          !.last_error = "error",
                                          !.next_retry = delay])
         IN  IF rcu = "ok"
             THEN [marked EXCEPT ![j].retry_count = retry_count + 1]
             ELSE marked

\* Does the retry_count update of _handle_job_failure raise out of
\* _process_job? The first raise is caught by _process_job, whose handler
\* calls _handle_job_failure again; a raise of that call reaches start().
RetryCountUpdates == {"ok", "raise_once", "raise_twice"}

ProcessingError(retry_count, run_failed, rcu) ==
    run_failed /\ retry_count < QP_MAX_RETRIES /\ rcu = "raise_twice"

\* start(): self.consecutive_errors = 0 stands inside `if job:`
ErrorFreeResets(had_job) == had_job

NoQP == [pc |-> "off", running |-> FALSE,
         consecutive_errors |-> 0, streak |-> 0, backoff |-> 0,
         job |-> 0, retry_count |-> 0, faults |-> 0, crashes |-> 0,
         polls |-> 0, rows |-> <<>>]

\* main(): QueueProcessor(...).start(), in a new process (single_job is left
\* at its default, false)
QPStart ==
    /\ qp.pc \in {"off", "stopped"}
    /\ qp' = [qp EXCEPT !.pc = "poll", !.running = TRUE,
                        !.consecutive_errors = 0, !.streak = 0, !.backoff = 0,
                        !.job = 0, !.retry_count = 0]
    /\ UNCHANGED <<up, now, qvars, cbvars, txvars, incvars>>

\* The end of a loop iteration that raised nothing: the counter is reset
\* if a job was processed, then the loop sleeps. polls is the parity of the
\* number of polls that found no job, which makes such a poll a step.
IterationEnd(q, rows, had_job) ==
    [q EXCEPT !.consecutive_errors = IF ErrorFreeResets(had_job) THEN 0 ELSE @,
              !.polls = IF had_job THEN @ ELSE 1 - @,
              !.streak = 0,
              !.backoff = 0,
              !.job = 0,
              !.pc = "poll",
              !.rows = Slept(rows, PROCESSING_INTERVAL)]

\* The except branch of the loop.
IterationError(q, rows) ==
    LET n == q.consecutive_errors + 1
    IN  IF n >= MAX_CONSECUTIVE_ERRORS
        THEN [q EXCEPT !.consecutive_errors = n, !.streak = @ + 1, !.job = 0,
                       !.running = FALSE, !.pc = "stopped", !.backoff = 0,
                       !.rows = rows]
        ELSE [q EXCEPT !.consecutive_errors = n, !.streak = @ + 1, !.job = 0,
                       !.pc = "poll",
                       !.backoff = PROCESSING_INTERVAL * Pow2(n),
                       !.rows = Slept(rows, PROCESSING_INTERVAL * Pow2(n))]

\* _get_next_job, and the rest of the iteration when there is no job
QPGetNextJob ==
    /\ qp.pc = "poll"
    /\ \E rpc \in {"ok", "raise"} :
         /\ rpc = "raise" => qp.faults < MaxFaults
         /\ LET j == get_next_sync_job(qp.rows)
                q == [qp EXCEPT !.faults = IF rpc = "raise" THEN @ + 1 ELSE @]
            IN  IF rpc = "ok" /\ j # 0
                THEN qp' = [q EXCEPT !.pc = "run", !.job = j,
                                     !.retry_count = qp.rows[j].retry_count,
                                     !.rows[j].status = "running"]
                ELSE qp' = IterationEnd(q, qp.rows, FALSE)
    /\ UNCHANGED <<up, now, qvars, cbvars, txvars, incvars>>

\* _process_job from _run_sync_job on, and the rest of the iteration
QPProcessJob ==
    /\ qp.pc = "run"
    /\ \E res \in RunResults, db \in {"ok", "raise"}, rcu \in RetryCountUpdates,
          jitter \in Jitters :
         LET j == qp.job
             known == qp.rows[j].job_type \in SyncJobTypes
             failed == known /\ res = "failure"
             used == (IF db = "raise" THEN 1 ELSE 0) + (IF rcu # "ok" THEN 1 ELSE 0)
             q == [qp EXCEPT !.faults = @ + used]
         IN  /\ qp.faults + used <= MaxFaults
             /\ ~failed => (rcu = "ok" /\ jitter = 0)
             /\ (failed /\ qp.retry_count >= QP_MAX_RETRIES) => (rcu = "ok" /\ jitter = 0)
             /\ ~known => res = "failure"
             /\ qp' = IF ~known
                      THEN IterationEnd(q, mark_job_completed(qp.rows, j, db, "failure"), TRUE)
                      ELSE IF res = "success"
                      THEN IterationEnd(q, mark_job_completed(qp.rows, j, db, "success"), TRUE)
                      ELSE IF ProcessingError(qp.retry_count, failed, rcu)
                      THEN IterationError(q,
                               handle_job_failure(qp.rows, j, db, rcu, qp.retry_count, jitter))
                      ELSE IterationEnd(q,
                               handle_job_failure(qp.rows, j, db,
                                   IF rcu = "raise_once" THEN "ok" ELSE rcu,
                                   qp.retry_count, jitter), TRUE)
    /\ UNCHANGED <<up, now, qvars, cbvars, txvars, incvars>>

\* the worker process dies while its job is in status running
QPCrash ==
    /\ qp.pc = "run"
    /\ qp.crashes < MaxCrashes
    /\ qp' = [qp EXCEPT !.pc = "off", !.running = FALSE, !.job = 0,
                        !.crashes = @ + 1]
    /\ UNCHANGED <<up, now, qvars, cbvars, txvars, incvars>>

IncAtRest ==
    /\ wm = NoWatermark
    /\ inc = NoInc
    /\ ac = NoApply
    /\ up = NoUp
    /\ qp = NoQP

InitCB ==
    /\ now = 0
    /\ impl \in Impls
    /\ cb = ClosedBreaker
    /\ call = NoCall
    /\ hist = [fsince |-> 0, reset |-> FALSE]
    /\ msync = NoSync
    /\ QueueAtRest
    /\ TxAtRest
    /\ IncAtRest

NextCB ==
    \/ ExecStart
    \/ ExecRetry
    \/ RecordFailureCall
    \/ RecordSuccessCall
    \/ IsOpenCall
    \/ CBTick

SpecCB == InitCB /\ [][NextCB]_vars

\* sync_merchants is run on a breaker that is fresh, or has failures from
\* earlier calls, or is open.
InitLS ==
    /\ now = 0
    /\ impl \in Impls
    /\ cb \in {ClosedBreaker,
               record_failure(ClosedBreaker, 0),
               [failures |-> CIRCUIT_MAX_FAILURES, is_open |-> TRUE, last_failure_time |-> 0]}
    /\ call = NoCall
    /\ hist = [fsince |-> cb.failures, reset |-> FALSE]
    /\ msync = NoSync
    /\ QueueAtRest
    /\ TxAtRest
    /\ IncAtRest

NextLS ==
    \/ SMBegin \/ SMCall \/ SMRetry \/ SMPage \/ SMMerchant \/ SMQuery \/ SMWrite
    \/ CBTick

SpecLS == InitLS /\ [][NextLS]_vars

InitTx ==
    /\ now = 0
    /\ QueueAtRest
    /\ CBAtRest
    /\ TxAtRest
    /\ IncAtRest

NextTx ==
    \/ BeginRun
    \/ MStart \/ MFetch \/ MLoop \/ MFinal \/ MDecide \/ MExcept
    \/ RStart \/ RFetch \/ RLoop \/ RFinal \/ RDecide \/ RExcept
    \/ AStart \/ AAfterMerchants \/ AAfterResiduals \/ AExcept
    \/ WithEnter \/ WithStart \/ WithBody \/ WithExit

SpecTx == InitTx /\ [][NextTx]_vars

\* One process constructs one sync manager: the transactional
\* IrelandPayCRMSync or the lib IRISCRMSyncManager; the other one is absent.
InitAll ==
    /\ now = 0
    /\ QueueAtRest
    /\ impl = "iris"
    /\ cb = ClosedBreaker
    /\ call = NoCall
    /\ hist = [fsince |-> 0, reset |-> FALSE]
    /\ txs = <<>>
    /\ txid = 0
    /\ \/ run = NoRun /\ msync = [NoSync EXCEPT !.pc = "absent"]
       \/ run = [NoRun EXCEPT !.pc = "absent"] /\ msync = NoSync
    /\ IncAtRest

NextSA ==
    \/ SABegin
    \/ SMCall \/ SMRetry \/ SMPage \/ SMMerchant \/ SMQuery \/ SMWrite
    \/ SAResiduals \/ SAVolumes \/ SALog
    \/ CBTick

NextAll == NextTx \/ NextSA

SpecAll == InitAll /\ [][NextAll]_vars

InitInc ==
    /\ now = 0
    /\ QueueAtRest
    /\ CBAtRest
    /\ TxAtRest
    /\ wm \in {NoWatermark, [last_sync_time |-> 0, last_record_count |-> 0]}
    /\ inc = NoInc
    /\ ac = NoApply
    /\ up = NoUp
    /\ qp = NoQP

NextInc ==
    \/ IncConstruct \/ IncFetch \/ IncApply \/ IncUpdateWatermark
    \/ UpdateSyncWatermark \/ IncTick

SpecInc == InitInc /\ [][NextInc]_vars

InitAC ==
    /\ now = 0
    /\ QueueAtRest
    /\ CBAtRest
    /\ TxAtRest
    /\ wm = NoWatermark
    /\ inc = NoInc
    /\ ac \in {[NoApply EXCEPT !.rec = r, !.id_field = f] :
                  r \in ApiRecords, f \in IdFields}
    /\ up = NoUp
    /\ qp = NoQP

NextAC == ApplyChanges \/ RemoteEdit

SpecAC == InitAC /\ [][NextAC]_vars

InitUp ==
    /\ now = 0
    /\ QueueAtRest
    /\ CBAtRest
    /\ TxAtRest
    /\ wm = NoWatermark
    /\ inc = NoInc
    /\ ac = NoApply
    /\ qp = NoQP
    /\ up \in {[NoUp EXCEPT !.path = p, !.tx = t, !.batch = b, !.table = tb] :
                  p \in {"lib", "rpc"}, t \in {0, 1}, b \in Batches, tb \in StoredTables}
    /\ up.path = "lib" => up.tx = 0

NextUp == ApplyUpsertMerchant \/ ApplyBatchUpsert

SpecUp == InitUp /\ [][NextUp]_vars

InitQP ==
    /\ now = 0
    /\ QueueAtRest
    /\ CBAtRest
    /\ TxAtRest
    /\ wm = NoWatermark
    /\ inc = NoInc
    /\ ac = NoApply
    /\ up = NoUp
    /\ qp \in {[NoQP EXCEPT !.rows = r] :
                  r \in UNION {[1..n -> QueuedRows] : n \in 1..MaxQPJobs}}

NextQP == QPStart \/ QPGetNextJob \/ QPProcessJob \/ QPCrash

SpecQP == InitQP /\ [][NextQP]_vars

\* a worker keeps polling and every sync run terminates
SpecQPLive ==
    /\ InitQP /\ [][NextQP]_vars
    /\ WF_vars(QPStart) /\ WF_vars(QPGetNextJob) /\ WF_vars(QPProcessJob)

Init ==
    /\ jobs \in {<<>>} \cup {<<r>> : r \in PersistedRows}
    /\ now = 0
    /\ pc = [w \in Workers |-> "idle"]
    /\ held = [w \in Workers |-> 0]
    /\ ret = Ret("init", 0, 0, TRUE, FALSE)
    /\ CBAtRest
    /\ TxAtRest
    /\ IncAtRest

Next ==
    \/ \E p \in Priorities : enqueue(p)
    \/ \E w \in Workers : get_next_job(w)
    \/ \E w \in Workers : mark_job_running(w)
    \/ \E w \in Workers : complete_job(w)
    \/ \E w \in Workers : fail_job(w)
    \/ \E j \in 1..MaxJobs : cancel_job(j)
    \/ Tick

Spec == Init /\ [][Next]_vars

(***************************************************************************)
(* Claims about the job queue                                              *)
(***************************************************************************)

AllowedTransitions ==
    {<<"pending", "running">>, <<"retrying", "running">>,
     <<"running", "completed">>, <<"running", "retrying">>,
     <<"running", "failed">>, <<"pending", "cancelled">>,
     <<"retrying", "cancelled">>}

Eligible(row, t) ==
    \/ row.status = "pending"
    \/ (row.status = "retrying" /\ row.next_retry # NULL /\ row.next_retry <= t)

\* C9: when the store answers, get_next_job returns a job exactly when some
\* job is eligible (pending, or retrying with next_retry <= now), and the job
\* returned is an eligible job of highest priority, the oldest among those.
C9_NextJob ==
    [][\A w \in Workers :
          (get_next_job(w) /\ ret'.ok) =>
              /\ (ret'.val # 0) <=> (\E j \in JobIds : Eligible(jobs[j], now))
              /\ ret'.val # 0 =>
                    /\ Eligible(jobs[ret'.val], now)
                    /\ \A k \in JobIds : Eligible(jobs[k], now) =>
                          \/ jobs[k].priority < jobs[ret'.val].priority
                          \/ /\ jobs[k].priority = jobs[ret'.val].priority
                             /\ jobs[k].created_at >= jobs[ret'.val].created_at]_vars

(***************************************************************************)
(* Claims about the circuit breaker and the resilience wrapper             *)
(***************************************************************************)

\* The breaker is open and its reset timeout has not elapsed.
Blocked ==
    /\ cb.is_open
    /\ cb.last_failure_time # NULL
    /\ now - cb.last_failure_time < CIRCUIT_RESET_SECONDS

\* This step of the wrapper invoked the wrapped operation.
InvokedOperation ==
    /\ ExecStart \/ ExecRetry
    /\ call'.calls = (IF call.phase = "sleeping" THEN call.calls ELSE 0) + 1

\* C2: while the breaker is open and the reset timeout has not elapsed, the
\* wrapper never invokes the wrapped operation, neither in a new
\* _execute_with_resilience call nor in a later retry of the call in which
\* the breaker opened.
C2_OpenRejects == [][InvokedOperation => ~Blocked]_vars

\* C3: a call whose every invocation of the operation raised a retryable
\* error, the breaker staying closed throughout, has invoked the operation
\* exactly MAX_RETRIES + 1 times when it returns.
C3_RetryBound ==
    (/\ call.phase = "returned"
     /\ call.calls > 0
     /\ \A i \in 1..Len(call.outcomes) : call.outcomes[i] = "retryable"
     /\ ~call.opened)
        => call.calls = MAX_RETRIES + 1

\* C10: from a closed breaker, under record_failure and record_success calls
\* alone (no timeout reset), the breaker is open after a record_failure call
\* exactly if it was open before or the call made the number of failures
\* since the last record_success equal to CIRCUIT_MAX_FAILURES: it opens at
\* that call, not earlier, and later failures leave it open.
C10_OpensAtThreshold ==
    [][(hist'.fsince = hist.fsince + 1 /\ ~hist'.reset) =>
          (cb'.is_open <=> (cb.is_open \/ hist'.fsince = CIRCUIT_MAX_FAILURES))]_vars

\* C10 witness: the breaker opened at the threshold and one more failure was
\* recorded on the open breaker.
C10_Witness ==
    /\ cb.is_open
    /\ ~hist.reset
    /\ hist.fsince = CIRCUIT_MAX_FAILURES + 1

\* C11: while the breaker is open and less than CIRCUIT_RESET_SECONDS have
\* passed since the last recorded failure, is_open() returns true and no
\* step (record_success, record_failure, is_open, a wrapper attempt) closes
\* the breaker.
C11_StaysOpen == [][Blocked => (is_open(impl, cb, now) /\ cb'.is_open)]_vars

\* C11 witness: a success was recorded on the open breaker, time has passed,
\* and the breaker is still open within its timeout.
C11_Witness ==
    /\ Blocked
    /\ cb.failures = 0
    /\ now > cb.last_failure_time

\* C12: whenever the breaker is open its failure count is at least
\* CIRCUIT_MAX_FAILURES.
C12_OpenImpliesFailures == cb.is_open => cb.failures >= CIRCUIT_MAX_FAILURES

\* C13: an is_open() check on an open breaker closes it and zeroes the
\* failure count exactly when now - last_failure_time >= CIRCUIT_RESET_SECONDS
\* (equality included), and then returns false; otherwise it returns true
\* and leaves the breaker as it is.
C13_ResetAtTimeout ==
    (cb.is_open /\ cb.last_failure_time # NULL) =>
        IF now - cb.last_failure_time >= CIRCUIT_RESET_SECONDS
        THEN /\ is_open_state(impl, cb, now) = [cb EXCEPT !.is_open = FALSE, !.failures = 0]
             /\ ~is_open(impl, cb, now)
        ELSE /\ is_open_state(impl, cb, now) = cb
             /\ is_open(impl, cb, now)

\* This step invoked the operation and the invocation raised a fatal error.
FatalAttempt ==
    /\ InvokedOperation
    /\ call'.outcomes[Len(call'.outcomes)] = "fatal"

\* C14: an attempt whose invocation raises a fatal error leaves the breaker's
\* failures, is_open and last_failure_time as the attempt found them (as
\* they are after the open check that precedes the attempt, if one is made).
C14_FatalLeavesBreaker ==
    [][FatalAttempt => (cb' = cb \/ cb' = is_open_state(impl, cb, now))]_vars

\* C15: a call whose first invocation of the operation raised a fatal error
\* has returned at once: one invocation, no backoff wait, no retry, and a
\* failure result for the caller.
C15_FatalOnce ==
    (Len(call.outcomes) >= 1 /\ call.outcomes[1] = "fatal") =>
        /\ call.phase = "returned"
        /\ call.calls = 1
        /\ call.result \in {"fatal", "unexpected"}

C15_Witness ==
    /\ call.phase = "returned"
    /\ call.outcomes = <<"fatal">>
    /\ call.result = "fatal"

\* This step invoked the operation and the invocation raised an exception
\* that is neither RetryableError nor FatalError.
OtherAttempt ==
    /\ InvokedOperation
    /\ call'.outcomes[Len(call'.outcomes)] = "other"

\* C16: an exception of the operation that is neither RetryableError nor
\* FatalError (a network failure, a timeout, a 5xx raised by the API client)
\* counts as one failure of the breaker and, while attempts remain, is
\* followed by a backoff wait and another attempt.
C16_OtherIsRetryable ==
    [][OtherAttempt =>
          /\ cb'.failures \in {cb.failures + 1, is_open_state(impl, cb, now).failures + 1}
          /\ call'.attempts < MAX_RETRIES => call'.phase = "sleeping"]_vars

\* C18: with the breaker closed throughout, a call returns only when the
\* operation has succeeded or has raised a retryable error MAX_RETRIES + 1
\* times, so an operation that fails k <= MAX_RETRIES times and then succeeds
\* is invoked k + 1 times and its result is returned.
C18_RetryThenSuccess ==
    LET n == Len(call.outcomes)
    IN  (/\ call.phase = "returned"
         /\ ~call.opened
         /\ n >= 1
         /\ \A i \in 1..(n - 1) : call.outcomes[i] = "retryable"
         /\ call.outcomes[n] \in {"ok", "retryable"})
            => \/ /\ call.outcomes[n] = "ok"
                  /\ call.result = "ok"
                  /\ call.calls = n
               \/ /\ call.outcomes[n] = "retryable"
                  /\ n = MAX_RETRIES + 1

(***************************************************************************)
(* Claims about sync_merchants of the lib sync managers, under SpecLS      *)
(***************************************************************************)
AllRetryable(outcomes) ==
    /\ Len(outcomes) >= 1
    /\ \A i \in 1..Len(outcomes) : outcomes[i] = "retryable"

\* C17: a wrapper call whose every invocation raised a retryable error
\* returns, once it stops retrying, a result with success = false, an error
\* and details; a sync_merchants whose first page fetch ended this way has
\* stopped at page 1 and returned total_merchants = 0 and at least one error.
C17_GracefulDegradation ==
    /\ (call.phase = "returned" /\ AllRetryable(call.outcomes)) =>
           /\ call.result \notin {"ok", "none"}
           /\ ResultKeys(impl, call.result) = {"success", "error", "details"}
    /\ (msync.pc = "done" /\ AllRetryable(msync.fetch1)) =>
           /\ msync.page = 1
           /\ msync.total_merchants = 0
           /\ msync.errors >= 1

C17_Witness ==
    /\ msync.pc = "done"
    /\ Len(msync.fetch1) = MAX_RETRIES
    /\ AllRetryable(msync.fetch1)
    /\ msync.total_merchants = 0
    /\ msync.errors = 1

(***************************************************************************)
(* Claims about the transactional syncs, checked under SpecTx              *)
(***************************************************************************)
RunEnded == run.pc \in {"done", "raised"}

\* C4: every transaction that start_transaction created has been ended, by
\* one commit or one rollback, when a run of sync_merchants, sync_residuals
\* or sync_all in which no sink request failed has returned; the transaction
\* sync_all starts for itself is one of them.
C4_EndedExactlyOnce ==
    (RunEnded /\ ~run.rpc_raised) =>
        \A i \in 1..Len(txs) : txs[i].status \in {"committed", "rolled_back"}

\* A family sync has returned, whichever way.
Finished(fam) ==
    /\ Results(run, fam).tx # 0
    /\ Results(run, fam).how \in {"check", "nodata", "handled", "raised"}

ExceptionIn(fam) ==
    \/ Results(run, fam).how \in {"handled", "raised"}
    \/ /\ run.top = (IF fam = "m" THEN "merchants" ELSE "residuals")
       /\ run.raises > 0

\* The with block has been left without a successful commit.
LeftUncommitted ==
    /\ run.top = "with"
    /\ RunEnded
    /\ run.w.tx # 0
    /\ run.w.body \in {"raise", "commit_raises", "exit"}

ResidualsStarted ==
    /\ run.nested
    /\ \/ run.pc \in {"r_start", "r_fetch", "r_loop", "r_final", "r_decide",
                      "r_except", "a_after_r"}
       \/ run.r.how # "none"
       \/ run.r.tx # 0

\* C20: sync_all calls the residuals sync only after the merchants sync has
\* returned, and never in a run whose merchants sync rolled back (neither
\* marked rolled_back nor rolled back in the sink); the sync_all that has a
\* volumes sync calls merchants, residuals, volumes in that order.
C20_MerchantsFirst ==
    /\ ResidualsStarted =>
          /\ run.m.how \in {"check", "handled"}
          /\ run.m.status # "rolled_back"
          /\ run.m.tx # 0 => txs[run.m.tx].status # "rolled_back"
    /\ /\ Len(msync.all) <= Len(SyncAllOrder)
       /\ \A i \in 1..Len(msync.all) : msync.all[i] = SyncAllOrder[i]
       /\ msync.pc \in {"residuals", "volumes", "all_done", "all_raised"} =>
             Len(msync.all) >= 2
       /\ msync.pc \in {"volumes", "all_done", "all_raised"} =>
             msync.all = SyncAllOrder

C20_Witness ==
    /\ run.nested
    /\ run.pc = "done"
    /\ run.m.how = "check"
    /\ run.m.status = "rolled_back"
    /\ txs[run.m.tx].status = "rolled_back"
    /\ run.r = NoResults
    /\ ~run.a.success

(***************************************************************************)
(* Claims about the incremental sync, checked under SpecInc                *)
(***************************************************************************)
\* C6: an incremental sync run changes the stored watermark only if its fetch
\* of changed records, its upsert and its delete all succeeded; after a
\* failed fetch, upsert or delete the watermark keeps its previous value.
C6_WatermarkOnlyOnSuccess ==
    [][(wm' # wm) =>
          ~(inc.fetch_failed \/ inc.upsert_failed \/ inc.delete_failed)]_vars

\* C21: the stored last_sync_time of the (data_type, scope) pair never
\* decreases in a call of _update_sync_watermark, with an explicit sync_time
\* or with the default.
C21_WatermarkMonotonic ==
    [][wm'.last_sync_time >= wm.last_sync_time]_vars

\* C30: the watermark an incremental sync run writes is not later than the
\* moment at which that run queried the API for changed records.
C30_WatermarkNotAfterQuery ==
    [][(inc.pc = "applied" /\ wm' # wm) => wm'.last_sync_time <= inc.queried]_vars

(***************************************************************************)
(* Claims about _apply_changes, checked under SpecAC                       *)
(***************************************************************************)
\* C22: a call of _apply_changes whose select and upsert succeed writes the
\* record exactly when the table holds no row for the record's id_field
\* value or the stored hash differs from the record's hash (so a second call
\* with the unchanged record writes nothing), and the hash of a record does
\* not depend on the order of its fields or on its volatile fields.
C22_WritesExactlyDirty ==
    /\ \A k \in 1..Len(ac.log) :
          LET e == ac.log[k]
          IN  (e.select_ok /\ e.upsert_ok) =>
                  (e.written <=> (~e.known \/ ~e.same_hash))
    /\ generate_record_hash(Reverse(ac.rec)) = generate_record_hash(ac.rec)
    /\ \A f \in VolatileFields \ {"hash_value"}, v \in FieldValues :
          generate_record_hash(Put(ac.rec, f, v)) = generate_record_hash(ac.rec)

\* C23: when the same batch is applied twice to the merchants table with the
\* same conflict target and neither application reports a failed record, the
\* table after the second application is the table after the first, holds one
\* row per natural key, and the second application reports zero inserted.
OneRowPerKey(table) ==
    \A a, b \in 1..Len(table) : table[a].mid = table[b].mid => a = b

CleanReport(rep) == ~rep.raised /\ rep.failed = 0

C23_IdempotentUpsert ==
    (Len(up.reps) = 2 /\ CleanReport(up.reps[1]) /\ CleanReport(up.reps[2])) =>
        /\ up.table = up.first
        /\ OneRowPerKey(up.table)
        /\ up.reps[2].inserted = 0

C23_Witness ==
    /\ Len(up.reps) = 2
    /\ CleanReport(up.reps[1]) /\ CleanReport(up.reps[2])
    /\ up.reps[1].inserted > 0
    /\ up.reps[2].updated = Len(up.batch)
    /\ Len(up.batch) = MaxBatch

\* C28: every batch_upsert call of sync_merchants carries at most
\* MERCHANT_BATCH_SIZE records and every call of
\* sync_residuals_with_transaction at most RESIDUAL_BATCH_SIZE, also after an
\* earlier call of the run raised (a batch that is sent again carries records
\* that were submitted before).
C28_BatchSizeBound ==
    [][(run'.sent # run.sent) =>
          run'.sent <= (IF run.pc \in {"m_loop", "m_final"}
                        THEN MERCHANT_BATCH_SIZE ELSE RESIDUAL_BATCH_SIZE)]_vars

C24_StopsAfterConsecutiveErrors ==
    /\ (qp.pc = "stopped") <=> (qp.streak >= MAX_CONSECUTIVE_ERRORS)
    /\ (qp.pc = "poll" /\ qp.streak > 0) =>
           qp.backoff = PROCESSING_INTERVAL * Pow2(qp.streak)

\* C26: a job is in status completed only with the result of a sync run that
\* reported success, whatever its job type.
C26_CompletedOnlyOnSuccess ==
    \A j \in 1..Len(qp.rows) :
        qp.rows[j].status = "completed" => qp.rows[j].result = "success"

\* C27: every job of the queue that is not cancelled eventually reaches
\* completed or failed, also when the worker that claimed it dies while the
\* job is running.
C27_EveryJobFinishes ==
    \A j \in 1..MaxQPJobs :
        [](qp.rows[j].status # "cancelled" =>
              <>(qp.rows[j].status \in {"completed", "failed"}))

\* C29: a result that reports transaction_status committed or rolled_back
\* belongs to a run whose own transaction is in that state in the sink; this
\* is stated for the results of sync_merchants, of
\* sync_residuals_with_transaction and of sync_all.
StatusIsSinkState(res) ==
    res.status \in {"committed", "rolled_back"} =>
        (res.tx # 0 /\ txs[res.tx].status = res.status)

====
